---- MODULE Spec2Model ----
(***************************************************************************)
(* A verification model of the agnes data views: masked columns, data      *)
(* stores, data frames (a shared store plus a private row permutation) and *)
(* data views (a list of frames plus an ordered field map), with the view  *)
(* operations subview, rename, merge, filter and sort_by.                  *)
(*                                                                         *)
(* Row indices and permutation entries are 0-based, as in the source; the  *)
(* operator At reads a TLA+ sequence at a 0-based index.                   *)
(***************************************************************************)
EXTENDS Integers, Sequences, FiniteSets, TLC

\* ------------------------------------------------------------------ bounds
\* The number of operations on existing views (and of failed operations).
MaxSteps == 2
\* The length of a column built by constructor and push calls.
MaxLen == 3
\* The length of a join key column.
MaxKeys == 2

\* ------------------------------------------------------------ basic values
\* f64 is modelled by the integers plus two distinguished values.
NaN == -1000
Inf == 1000

Na == <<"Na", 0>>
Exists(x) == <<"Exists", x>>
None == <<"None", 0>>

exists(m) == m[1] = "Exists"
is_na(m) == m[1] = "Na"
unwrap(m) == m[2]
is_nan(x) == x = NaN
Default == 0

At(s, i) == s[i + 1]

\* ------------------------------------------------------------- MaskedData
MaskedNew == [mask |-> <<>>, data |-> <<>>]

\* A push that forgets the mask bit of a missing value.
MaskedPushNoMaskBit(md, value) ==
    IF exists(value)
    THEN [mask |-> Append(md.mask, TRUE), data |-> Append(md.data, unwrap(value))]
    ELSE [mask |-> md.mask, data |-> Append(md.data, Default)]

MaskedPush(md, value) ==
    IF exists(value)
    THEN [mask |-> Append(md.mask, TRUE), data |-> Append(md.data, unwrap(value))]
    ELSE [mask |-> Append(md.mask, FALSE), data |-> Append(md.data, Default)]

RECURSIVE PushAll(_, _)
PushAll(md, v) ==
    IF v = <<>> THEN md ELSE PushAll(MaskedPush(md, Head(v)), Tail(v))

from_masked_vec(v) == PushAll(MaskedNew, v)

new_with_elem(value) ==
    IF exists(value)
    THEN [mask |-> <<TRUE>>, data |-> <<unwrap(value)>>]
    ELSE [mask |-> <<FALSE>>, data |-> <<Default>>]

from_vec(v) == [mask |-> [i \in 1..Len(v) |-> TRUE], data |-> v]

MaskedLen(md) == Len(md.data)

\* A get that does not look at the mask.
MaskedGetNoMask(md, index) ==
    IF index >= Len(md.data) THEN None
    ELSE Exists(At(md.data, index))

MaskedGet(md, index) ==
    IF index >= Len(md.data) THEN None
    ELSE IF At(md.mask, index) THEN Exists(At(md.data, index))
    ELSE Na

IndexError(index, len) == <<"IndexError", index, len>>

\* DataIndex::get_data for MaskedData.
get_data(md, idx) ==
    LET got == MaskedGet(md, idx)
    IN IF got = None THEN IndexError(idx, MaskedLen(md)) ELSE got

\* ------------------------------------------------------------- sort order
\* Comparison of two MaybeNa<f64> as written in the float sort_order closure:
\* the derived partial_cmp (Na before Exists, then the f64 partial_cmp, which
\* fails when either side is NaN) with the closure's fallback.
PartialCmpF64(x, y) ==
    IF is_nan(x) \/ is_nan(y) THEN "None"
    ELSE IF x < y THEN "Less" ELSE IF x = y THEN "Equal" ELSE "Greater"

PartialCmpMaybeNa(a, b) ==
    IF is_na(a) /\ is_na(b) THEN "Equal"
    ELSE IF is_na(a) THEN "Less"
    ELSE IF is_na(b) THEN "Greater"
    ELSE PartialCmpF64(unwrap(a), unwrap(b))

\* A comparison whose fallback puts NaN after the other numbers.
CmpFloatNanLast(a, b) ==
    IF PartialCmpMaybeNa(a, b) # "None" THEN PartialCmpMaybeNa(a, b)
    ELSE IF is_nan(unwrap(a)) /\ ~is_nan(unwrap(b)) THEN "Greater"
    ELSE "Less"

CmpFloat(a, b) ==
    IF PartialCmpMaybeNa(a, b) # "None" THEN PartialCmpMaybeNa(a, b)
    ELSE IF is_nan(unwrap(a)) /\ ~is_nan(unwrap(b)) THEN "Less"
    ELSE "Greater"

\* A comparison that puts Na after the existing values.
CmpOrdNaLast(a, b) ==
    IF is_na(a) /\ is_na(b) THEN "Equal"
    ELSE IF is_na(a) THEN "Greater"
    ELSE IF is_na(b) THEN "Less"
    ELSE IF unwrap(a) < unwrap(b) THEN "Less"
    ELSE IF unwrap(a) = unwrap(b) THEN "Equal"
    ELSE "Greater"

\* Comparison of two MaybeNa<T> for the totally ordered kinds (derived Ord).
CmpOrd(a, b) ==
    IF is_na(a) /\ is_na(b) THEN "Equal"
    ELSE IF is_na(a) THEN "Less"
    ELSE IF is_na(b) THEN "Greater"
    ELSE IF unwrap(a) < unwrap(b) THEN "Less"
    ELSE IF unwrap(a) = unwrap(b) THEN "Equal"
    ELSE "Greater"

Compare(ty, a, b) == IF ty = "Float" THEN CmpFloat(a, b) ELSE CmpOrd(a, b)

\* sort_unstable_by consults the closure only through `compare(a, b) == Less`.
IsLess(ty, a, b) == Compare(ty, a, b) = "Less"

\* -------------------------------------------------------------- DataStore
\* A store is an ordered list of typed fields, each holding one MaskedData
\* column; all columns of a store have the same length.
Field(ident, ty, values) ==
    [ident |-> ident, ty |-> ty, col |-> from_masked_vec(values)]

EmpStore ==
    <<Field("a", "Unsigned", <<Exists(2), Exists(1), Na, Exists(1)>>),
      Field("b", "Float", <<Exists(NaN), Exists(1), Exists(2), Na>>)>>

ExtraStore ==
    <<Field("c", "Float", <<Exists(Inf), Exists(NaN), Na, Exists(1)>>)>>

\* The stores that exist, by identity (the position in this list); the last
\* two are different store objects with the same content.
stores == <<EmpStore, ExtraStore, ExtraStore>>

IndexOrders(n) ==
    {p \in [1..n -> 0..(n - 1)] : \A i, j \in 1..n : i # j => p[i] # p[j]}

\* A sort order that leaves the index list as it was collected.
SortOrdersUnsorted(ty, vals) == {[i \in 1..Len(vals) |-> i - 1]}

\* Sort orders that leave out the rows whose value is missing.
SortOrdersWithoutNa(ty, vals) ==
    {SelectSeq(p, LAMBDA r : exists(At(vals, r))) :
        p \in {q \in IndexOrders(Len(vals)) :
                  \A i, j \in 1..Len(vals) :
                      i < j => ~IsLess(ty, At(vals, q[j]), At(vals, q[i]))}}

\* The orders an unstable sort of the index list 0..n-1 may return for the
\* values vals (a sequence of MaybeNa): every arrangement in which no later
\* element is less than an earlier one.  Ties may come out in any order.
SortOrders(ty, vals) ==
    {p \in IndexOrders(Len(vals)) :
        \A i, j \in 1..Len(vals) :
            i < j => ~IsLess(ty, At(vals, p[j]), At(vals, p[i]))}

NoRename == ""

StoreFields(store) == [i \in 1..Len(store) |-> store[i].ident]
StoreHasField(store, ident) == \E i \in 1..Len(store) : store[i].ident = ident
StoreField(store, ident) ==
    store[CHOOSE i \in 1..Len(store) : store[i].ident = ident]
StoreNrows(store) == IF Len(store) = 0 THEN 0 ELSE MaskedLen(store[1].col)
StoreGetFieldType(store, ident) == StoreField(store, ident).ty

VARIABLES
    free,     \* the stores not yet moved into a view
    perms,    \* the heap of frame permutations (Option<Vec<usize>>)
    views,    \* the data views created so far
    last,     \* the last operation, its arguments and its result
    steps,    \* number of operations performed
    column,   \* a column under construction, with the call that made it
    joined    \* two key columns, the join applied to them and its output

vars == <<free, perms, views, last, steps, column, joined>>

\* ------------------------------------------------------------- DataFrame
\* A frame is [store |-> store identity, perm |-> address of its permutation].
NoPerm == [some |-> FALSE, v |-> <<>>]
SomePerm(v) == [some |-> TRUE, v |-> v]

FrameNrows(pm, fr) ==
    IF pm[fr.perm].some THEN Len(pm[fr.perm].v) ELSE StoreNrows(stores[fr.store])

\* Two frames have the same store when their stores have equal content.
has_same_content(fr, other) == stores[fr.store] = stores[other.store]

\* No two frames are taken to have the same store.
has_same_store_never(fr, other) == FALSE

has_same_store(fr, other) == fr.store = other.store

\* An index lookup that ignores the permutation.
map_index_identity(pm, fr, requested) == requested

map_index(pm, fr, requested) ==
    IF pm[fr.perm].some THEN At(pm[fr.perm].v, requested) ELSE requested

\* A permutation update that replaces the permutation instead of composing.
ComposedPermNoPrev(pm, fr, new_permutation) == SomePerm(new_permutation)

\* A permutation update that takes the entries of the previous permutation
\* one position too far.
ComposedPermOneBased(pm, fr, new_permutation) ==
    IF pm[fr.perm].some
    THEN SomePerm([i \in 1..Len(new_permutation) |->
                      At(pm[fr.perm].v, new_permutation[i]) + 1])
    ELSE SomePerm(new_permutation)

\* The permutation of frame fr after update_permutation(new_permutation).
ComposedPerm(pm, fr, new_permutation) ==
    IF pm[fr.perm].some
    THEN SomePerm([i \in 1..Len(new_permutation) |->
                      At(pm[fr.perm].v, new_permutation[i])])
    ELSE SomePerm(new_permutation)

update_permutation(pm, fr, new_permutation) ==
    [pm EXCEPT ![fr.perm] = ComposedPerm(pm, fr, new_permutation)]

\* A clone that shares the permutation with the frame it was cloned from.
FrameCloneShared(pm, fr) == [pm |-> pm, frame |-> fr]

\* #[derive(Clone)] on DataFrame: the store reference is shared, the
\* permutation vector is copied to a fresh address.
FrameClone(pm, fr) ==
    [pm |-> Append(pm, pm[fr.perm]),
     frame |-> [store |-> fr.store, perm |-> Len(pm) + 1]]

\* Vec<DataFrame>::clone and pushing clones of further frames.
RECURSIVE FramesCloneOnto(_, _, _)
FramesCloneOnto(pm, acc, frames) ==
    IF frames = <<>> THEN [pm |-> pm, frames |-> acc]
    ELSE LET c == FrameClone(pm, Head(frames))
         IN FramesCloneOnto(c.pm, Append(acc, c.frame), Tail(frames))

FramesClone(pm, frames) == FramesCloneOnto(pm, <<>>, frames)

\* The column of field ident as seen through the frame (Framed::get_data
\* over 0..Framed::len()).
FramedValues(pm, fr, ident) ==
    [i \in 1..FrameNrows(pm, fr) |->
        MaskedGet(StoreField(stores[fr.store], ident).col, map_index(pm, fr, i - 1))]

\* Filter predicates (closures over a value of the field's type).
Preds == {"eq1", "ge1", "never"}
PredHolds(pred, x) ==
    /\ ~is_nan(x)
    /\ pred = "eq1" => x = 1
    /\ pred = "ge1" => x >= 1
    /\ pred # "never"

Matches(pred, m) == exists(m) /\ PredHolds(pred, unwrap(m))

\* The local indices (ascending) of the values that satisfy the predicate.
RECURSIVE MatchIndices(_, _, _)
MatchIndices(vals, pred, from) ==
    IF from >= Len(vals) THEN <<>>
    ELSE IF Matches(pred, At(vals, from))
         THEN <<from>> \o MatchIndices(vals, pred, from + 1)
         ELSE MatchIndices(vals, pred, from + 1)

get_filter(pm, fr, ident, pred) == MatchIndices(FramedValues(pm, fr, ident), pred, 0)

sort_order_by(pm, fr, ident) ==
    SortOrders(StoreGetFieldType(stores[fr.store], ident), FramedValues(pm, fr, ident))

\* A frame filter that returns the permutation it stored instead of the
\* local list it applied.
FrameFilterReturnsStored(pm, fr, ident, pred) ==
    IF ~StoreHasField(stores[fr.store], ident)
    THEN [ok |-> FALSE, filter |-> <<>>, pm |-> pm]
    ELSE LET filter == get_filter(pm, fr, ident, pred)
         IN [ok |-> TRUE, filter |-> ComposedPerm(pm, fr, filter).v,
             pm |-> update_permutation(pm, fr, filter)]

\* Filter::filter for DataFrame.
FrameFilter(pm, fr, ident, pred) ==
    IF ~StoreHasField(stores[fr.store], ident)
    THEN [ok |-> FALSE, filter |-> <<>>, pm |-> pm]
    ELSE LET filter == get_filter(pm, fr, ident, pred)
         IN [ok |-> TRUE, filter |-> filter,
             pm |-> update_permutation(pm, fr, filter)]

\* SortBy::sort_by for DataFrame, for one order the sort may produce.
FrameSortBy(pm, fr, ident, sort_order) ==
    [ok |-> TRUE, filter |-> sort_order,
     pm |-> update_permutation(pm, fr, sort_order)]

\* --------------------------------------------------------------- DataView
\* A view is [frames |-> sequence of frames,
\*            fields |-> the IndexMap, as a sequence of entries
\*                       [key, rident |-> [ident, rename], frame_idx],
\*            origin |-> the physical rows of each logical row when the view's
\*                       frame list was put together (history only)].
ViewField(key, ident, rename, frame_idx) ==
    [key |-> key, rident |-> [ident |-> ident, rename |-> rename],
     frame_idx |-> frame_idx]

\* IndexMap operations.
KeyIndex(fields, key) ==
    IF \E i \in 1..Len(fields) : fields[i].key = key
    THEN CHOOSE i \in 1..Len(fields) : fields[i].key = key
    ELSE 0

contains_key(fields, key) == KeyIndex(fields, key) # 0

IndexMapInsert(fields, entry) ==
    IF contains_key(fields, entry.key)
    THEN [fields EXCEPT ![KeyIndex(fields, entry.key)] = entry]
    ELSE Append(fields, entry)

\* A removal that closes the gap by shifting the later entries down.
shift_remove(fields, key) == SelectSeq(fields, LAMBDA entry : entry.key # key)

swap_remove(fields, key) ==
    LET i == KeyIndex(fields, key)
        n == Len(fields)
    IN IF i = 0 THEN fields
       ELSE [k \in 1..(n - 1) |-> IF k = i THEN fields[n] ELSE fields[k]]

to_renamed_field_ident(rident) ==
    IF rident.rename # NoRename THEN rident.rename ELSE rident.ident

ViewNrows(pm, view) ==
    IF Len(view.frames) = 0 THEN 0 ELSE FrameNrows(pm, view.frames[1])

nfields(view) == Len(view.fields)
fieldnames(view) == [i \in 1..Len(view.fields) |-> view.fields[i].key]
has_field(view, s) == contains_key(view.fields, s)

FrameOf(view, vf) == view.frames[vf.frame_idx + 1]

Panic == <<"Panic", 0>>

\* The value read for a field of the view at logical row idx
\* (select, then get_datum through the frame's map_index).
FieldValue(pm, view, vf, idx) ==
    IF idx >= FrameNrows(pm, FrameOf(view, vf)) THEN Panic
    ELSE MaskedGet(StoreField(stores[FrameOf(view, vf).store], vf.rident.ident).col,
                   map_index(pm, FrameOf(view, vf), idx))

\* The column a field of the view shows, over logical rows 0..nrows-1.
FieldColumn(pm, view, vf) ==
    [i \in 1..ViewNrows(pm, view) |-> FieldValue(pm, view, vf, i - 1)]

\* The records a view shows: one tuple of field values per logical row.
Rows(pm, view) ==
    [i \in 1..ViewNrows(pm, view) |->
        [k \in 1..Len(view.fields) |-> FieldValue(pm, view, view.fields[k], i - 1)]]

\* The physical rows (one per frame) behind each logical row.
PhysRow(pm, view, idx) ==
    [k \in 1..Len(view.frames) |->
        IF idx >= FrameNrows(pm, view.frames[k]) THEN -1
        ELSE map_index(pm, view.frames[k], idx)]

PhysRows(pm, view) ==
    [i \in 1..ViewNrows(pm, view) |-> PhysRow(pm, view, i - 1)]

\* impl From<DataStore> for DataView, with From<DataStore> for DataFrame.
ViewFromStore(sid, addr) ==
    [frames |-> <<[store |-> sid, perm |-> addr]>>,
     fields |-> [i \in 1..Len(stores[sid]) |->
                    ViewField(stores[sid][i].ident, stores[sid][i].ident, NoRename, 0)],
     origin |-> [i \in 1..StoreNrows(stores[sid]) |-> <<i - 1>>]]

\* #[derive(Clone)] on DataView.
ViewClone(pm, view) ==
    LET c == FramesClone(pm, view.frames)
    IN [pm |-> c.pm,
        view |-> [frames |-> c.frames, fields |-> view.fields, origin |-> view.origin]]

\* The field map built by v / subview from the requested list.  The strict
\* variant stops at the first requested field that is missing.
RECURSIVE SubFields(_, _, _, _)
SubFields(view, list, acc, strict) ==
    IF list = <<>> THEN [ok |-> TRUE, fields |-> acc, err |-> <<>>]
    ELSE IF contains_key(view.fields, Head(list))
         THEN SubFields(view, Tail(list),
                  IndexMapInsert(acc, view.fields[KeyIndex(view.fields, Head(list))]),
                  strict)
         ELSE IF strict THEN [ok |-> FALSE, fields |-> <<>>, err |-> <<Head(list)>>]
         ELSE SubFields(view, Tail(list), acc, strict)

\* A subview that drops missing fields also in the strict variant.
ViewSubLenient(pm, view, list, strict) ==
    LET sub == SubFields(view, list, <<>>, FALSE)
        c == FramesClone(pm, view.frames)
    IN [ok |-> TRUE, err |-> <<>>, pm |-> c.pm,
        view |-> [frames |-> c.frames, fields |-> sub.fields,
                  origin |-> view.origin]]

\* DataView::v (lenient) and DataView::subview (strict).
ViewSub(pm, view, list, strict) ==
    LET sub == SubFields(view, list, <<>>, strict)
        c == FramesClone(pm, view.frames)
    IN IF ~sub.ok THEN [ok |-> FALSE, err |-> sub.err, pm |-> pm, view |-> view]
       ELSE [ok |-> TRUE, err |-> <<>>, pm |-> c.pm,
             view |-> [frames |-> c.frames, fields |-> sub.fields,
                       origin |-> view.origin]]

\* A rename that looks for the original field before the new name.
ViewRenameNotFoundFirst(view, orig, new) ==
    IF ~contains_key(view.fields, orig)
    THEN [status |-> "FieldNotFound", err |-> <<orig>>, view |-> view]
    ELSE IF contains_key(view.fields, new)
    THEN [status |-> "FieldCollision", err |-> <<new>>, view |-> view]
    ELSE LET orig_vf == view.fields[KeyIndex(view.fields, orig)]
             rident == [ident |-> orig_vf.rident.ident, rename |-> new]
             new_vf == [key |-> to_renamed_field_ident(rident), rident |-> rident,
                        frame_idx |-> orig_vf.frame_idx]
         IN [status |-> "Ok", err |-> <<>>,
             view |-> [view EXCEPT !.fields =
                          swap_remove(IndexMapInsert(view.fields, new_vf), orig)]]

\* DataView::rename.
ViewRename(view, orig, new) ==
    IF contains_key(view.fields, new)
    THEN [status |-> "FieldCollision", err |-> <<new>>, view |-> view]
    ELSE IF ~contains_key(view.fields, orig)
    THEN [status |-> "FieldNotFound", err |-> <<orig>>, view |-> view]
    ELSE LET orig_vf == view.fields[KeyIndex(view.fields, orig)]
             rident == [ident |-> orig_vf.rident.ident, rename |-> new]
             new_vf == [key |-> to_renamed_field_ident(rident), rident |-> rident,
                        frame_idx |-> orig_vf.frame_idx]
         IN [status |-> "Ok", err |-> <<>>,
             view |-> [view EXCEPT !.fields =
                          swap_remove(IndexMapInsert(view.fields, new_vf), orig)]]

\* The index (0-based) of the first frame of new_stores that has the same
\* store as right_store, or -1.
FindSameStore(new_stores, right_store) ==
    IF \E i \in 1..Len(new_stores) : has_same_store(new_stores[i], right_store)
    THEN (CHOOSE i \in 1..Len(new_stores) :
            /\ has_same_store(new_stores[i], right_store)
            /\ \A j \in 1..(i - 1) : ~has_same_store(new_stores[j], right_store)) - 1
    ELSE -1

RECURSIVE MergeRightStores(_, _, _, _)
MergeRightStores(pm, new_stores, right_store_indices, right_frames) ==
    IF right_frames = <<>>
    THEN [pm |-> pm, new_stores |-> new_stores,
          right_store_indices |-> right_store_indices]
    ELSE LET found == FindSameStore(new_stores, Head(right_frames))
             c == FrameClone(pm, Head(right_frames))
         IN IF found >= 0
            THEN MergeRightStores(pm, new_stores,
                     Append(right_store_indices, found), Tail(right_frames))
            ELSE MergeRightStores(c.pm, Append(new_stores, c.frame),
                     Append(right_store_indices, Len(new_stores)), Tail(right_frames))

\* The frame list of a merge and, for every frame of right, its index in it.
compute_merged_stores(pm, left, right) ==
    LET l == FramesClone(pm, left.frames)
    IN MergeRightStores(l.pm, l.frames, <<>>, right.frames)

RECURSIVE MergeRightFields(_, _, _)
MergeRightFields(new_fields, right_fields, right_store_mapping) ==
    IF right_fields = <<>> THEN [ok |-> TRUE, fields |-> new_fields, err |-> <<>>]
    ELSE LET right_field == Head(right_fields)
         IN IF contains_key(new_fields, right_field.key)
            THEN [ok |-> FALSE, fields |-> <<>>, err |-> <<right_field.key>>]
            ELSE MergeRightFields(
                     IndexMapInsert(new_fields,
                         [key |-> right_field.key, rident |-> right_field.rident,
                          frame_idx |-> At(right_store_mapping, right_field.frame_idx)]),
                     Tail(right_fields), right_store_mapping)

\* A merged field list that starts empty instead of from left's fields.
compute_merged_field_list_NoLeft(left, right, right_store_mapping) ==
    MergeRightFields(<<>>, right.fields, right_store_mapping)

\* A merged field list that keeps the frame indices the fields had in right.
compute_merged_field_list_NoRemap(left, right, right_store_mapping) ==
    MergeRightFields(left.fields, right.fields,
                     [k \in 1..Len(right_store_mapping) |-> k - 1])

compute_merged_field_list(left, right, right_store_mapping) ==
    MergeRightFields(left.fields, right.fields, right_store_mapping)

\* A merge without the row-count check.
ViewMergeNoCheck(pm, self, other) ==
    LET ms == compute_merged_stores(pm, self, other)
        mf == compute_merged_field_list(self, other, ms.right_store_indices)
        merged == [frames |-> ms.new_stores, fields |-> mf.fields, origin |-> <<>>]
    IN IF ~mf.ok
       THEN [status |-> "FieldCollision", err |-> mf.err, pm |-> pm, view |-> self]
       ELSE [status |-> "Ok", err |-> <<>>, pm |-> ms.pm,
             view |-> [merged EXCEPT !.origin = PhysRows(ms.pm, merged)]]

\* DataView::merge.
ViewMerge(pm, self, other) ==
    IF ViewNrows(pm, self) # ViewNrows(pm, other)
    THEN [status |-> "DimensionMismatch", err |-> <<>>, pm |-> pm, view |-> self]
    ELSE LET ms == compute_merged_stores(pm, self, other)
             mf == compute_merged_field_list(self, other, ms.right_store_indices)
             merged == [frames |-> ms.new_stores, fields |-> mf.fields, origin |-> <<>>]
         IN IF ~mf.ok
            THEN [status |-> "FieldCollision", err |-> mf.err, pm |-> pm, view |-> self]
            ELSE [status |-> "Ok", err |-> <<>>, pm |-> ms.pm,
                  view |-> [merged EXCEPT !.origin = PhysRows(ms.pm, merged)]]

\* A filter or sort that leaves the other frames of the view alone.
UpdateOthersNone(pm, frames, skip, list, frame_idx) == pm

\* update_permutation on every frame but the one at index skip (0-based).
RECURSIVE UpdateOthers(_, _, _, _, _)
UpdateOthers(pm, frames, skip, list, frame_idx) ==
    IF frame_idx >= Len(frames) THEN pm
    ELSE IF frame_idx # skip
         THEN UpdateOthers(update_permutation(pm, At(frames, frame_idx), list),
                           frames, skip, list, frame_idx + 1)
         ELSE UpdateOthers(pm, frames, skip, list, frame_idx + 1)

\* A view filter that looks for the name among the identifiers of the
\* stores of the view's fields as well.
ViewFilterByIdent(pm, view, ident, pred) ==
    IF ~\E k \in 1..Len(view.fields) :
           view.fields[k].key = ident \/ view.fields[k].rident.ident = ident
    THEN [status |-> "FieldNotFound", filter |-> <<>>, pm |-> pm]
    ELSE LET view_field ==
                 view.fields[CHOOSE k \in 1..Len(view.fields) :
                                \/ view.fields[k].key = ident
                                \/ view.fields[k].rident.ident = ident]
             f == FrameFilter(pm, FrameOf(view, view_field), view_field.rident.ident, pred)
         IN [status |-> "Ok", filter |-> f.filter,
             pm |-> UpdateOthers(f.pm, view.frames, view_field.frame_idx,
                                 f.filter, 0)]

\* Filter::filter for DataView.
ViewFilter(pm, view, ident, pred) ==
    IF ~contains_key(view.fields, ident)
    THEN [status |-> "FieldNotFound", filter |-> <<>>, pm |-> pm]
    ELSE LET view_field == view.fields[KeyIndex(view.fields, ident)]
             f == FrameFilter(pm, FrameOf(view, view_field), view_field.rident.ident, pred)
         IN IF ~f.ok THEN [status |-> "FieldNotFound", filter |-> <<>>, pm |-> pm]
            ELSE [status |-> "Ok", filter |-> f.filter,
                  pm |-> UpdateOthers(f.pm, view.frames, view_field.frame_idx,
                                      f.filter, 0)]

\* The orders sort_by may compute for a field of the view.
ViewSortOrders(pm, view, ident) ==
    LET view_field == view.fields[KeyIndex(view.fields, ident)]
    IN sort_order_by(pm, FrameOf(view, view_field), view_field.rident.ident)

\* DataView::sort_by, for one order the sort may produce.
ViewSortBy(pm, view, ident, sorted) ==
    LET view_field == view.fields[KeyIndex(view.fields, ident)]
        f == FrameSortBy(pm, FrameOf(view, view_field), view_field.rident.ident, sorted)
    IN [status |-> "Ok", filter |-> f.filter,
        pm |-> UpdateOthers(f.pm, view.frames, view_field.frame_idx, f.filter, 0)]

\* A typed access of a frame that does not compare the types.
FrameTMapUnchecked(pm, fr, ident, ty) ==
    [status |-> "Ok", err |-> <<>>, res |-> FramedValues(pm, fr, ident)]

\* DataFrame::tmap with the function that collects the values it is given:
\* the requested type against the type of the store's field, then the
\* function over the field as the frame shows it.
FrameTMap(pm, fr, ident, ty) ==
    IF StoreGetFieldType(stores[fr.store], ident) # ty
    THEN [status |-> "IncompatibleTypes",
          err |-> <<ty, StoreGetFieldType(stores[fr.store], ident)>>, res |-> <<>>]
    ELSE [status |-> "Ok", err |-> <<>>, res |-> FramedValues(pm, fr, ident)]

\* DataView::tmap.
ViewTMap(pm, view, ident, ty) ==
    IF ~contains_key(view.fields, ident)
    THEN [status |-> "FieldNotFound", err |-> <<ident>>, res |-> <<>>]
    ELSE LET view_field == view.fields[KeyIndex(view.fields, ident)]
         IN FrameTMap(pm, FrameOf(view, view_field), view_field.rident.ident, ty)

\* DataView::is_empty.
is_empty(pm, view) == ViewNrows(pm, view) = 0

\* ------------------------------------------------------------ join engine
JoinKinds == {"Inner", "Outer", "Cross"}
Predicates ==
    {"Equal", "LessThan", "LessThanEqual", "GreaterThan", "GreaterThanEqual"}

\* The right row of an output row that has no right row.
NoRow == 0 - 1

\* Whether a left key and a right key satisfy the predicate.
Satisfies(ty, pred, a, b) ==
    LET c == Compare(ty, a, b)
    IN CASE pred = "Equal" -> c = "Equal"
         [] pred = "LessThan" -> c = "Less"
         [] pred = "LessThanEqual" -> c \in {"Less", "Equal"}
         [] pred = "GreaterThan" -> c = "Greater"
         [] pred = "GreaterThanEqual" -> c \in {"Greater", "Equal"}

\* The key under a cursor into a sort order.
KeyAt(keys, perm, cursor) == At(keys, At(perm, cursor))

\* The end (exclusive) of the run of keys equal to the key at cursor start.
RECURSIVE RunEnd(_, _, _, _)
RunEnd(keys, perm, start, e) ==
    IF e >= Len(perm) \/ KeyAt(keys, perm, e) # KeyAt(keys, perm, start) THEN e
    ELSE RunEnd(keys, perm, start, e + 1)

\* The Cartesian product of a list of left rows and a list of right rows.
Product(ls, rs) ==
    [k \in 1..(Len(ls) * Len(rs)) |->
        <<ls[((k - 1) \div Len(rs)) + 1], rs[((k - 1) % Len(rs)) + 1]>>]

\* A join that never emits a left row without a match.
UnmatchedNever(kind, l) == <<>>

\* The output for a left row that matched nothing.
Unmatched(kind, l) == IF kind = "Outer" THEN <<<<l, NoRow>>>> ELSE <<>>

\* The merge scan of the Equal predicate over both sort orders, from the
\* cursors i and j.
RECURSIVE MergeScan(_, _, _, _, _, _, _, _)
MergeScan(ty, lk, rk, lp, rp, i, j, kind) ==
    IF i >= Len(lp) THEN <<>>
    ELSE IF j >= Len(rp)
    THEN Unmatched(kind, At(lp, i)) \o MergeScan(ty, lk, rk, lp, rp, i + 1, j, kind)
    ELSE LET c == Compare(ty, KeyAt(lk, lp, i), KeyAt(rk, rp, j))
             le == RunEnd(lk, lp, i, i)
             re == RunEnd(rk, rp, j, j)
         IN IF c = "Equal"
            THEN Product(SubSeq(lp, i + 1, le), SubSeq(rp, j + 1, re))
                     \o MergeScan(ty, lk, rk, lp, rp, le, re, kind)
            ELSE IF c = "Less"
            THEN Unmatched(kind, At(lp, i))
                     \o MergeScan(ty, lk, rk, lp, rp, i + 1, j, kind)
            ELSE MergeScan(ty, lk, rk, lp, rp, i, j + 1, kind)

\* Whether a right key lies in the lower part of the sorted right side that
\* the binary search for the left key skips (LessThan, LessThanEqual) or
\* keeps (GreaterThan, GreaterThanEqual).
InLowerPart(ty, pred, key, rkey) ==
    IF pred \in {"GreaterThan", "GreaterThanEqual"}
    THEN Satisfies(ty, pred, key, rkey)
    ELSE ~Satisfies(ty, pred, key, rkey)

\* Binary search for the first cursor in lo..hi that is not in the lower part.
RECURSIVE PartitionPoint(_, _, _, _, _, _, _)
PartitionPoint(ty, rk, rp, key, pred, lo, hi) ==
    IF lo >= hi THEN lo
    ELSE LET mid == (lo + hi) \div 2
         IN IF InLowerPart(ty, pred, key, KeyAt(rk, rp, mid))
            THEN PartitionPoint(ty, rk, rp, key, pred, mid + 1, hi)
            ELSE PartitionPoint(ty, rk, rp, key, pred, lo, mid)

\* The right rows, in sort order, that satisfy the predicate for a left key.
MatchRange(ty, rk, rp, key, pred) ==
    LET pp == PartitionPoint(ty, rk, rp, key, pred, 0, Len(rp))
    IN IF pred \in {"GreaterThan", "GreaterThanEqual"}
       THEN SubSeq(rp, 1, pp)
       ELSE SubSeq(rp, pp + 1, Len(rp))

\* The scan of an ordered predicate: every left row with its range.
RECURSIVE RangeScan(_, _, _, _, _, _, _, _)
RangeScan(ty, lk, rk, lp, rp, i, kind, pred) ==
    IF i >= Len(lp) THEN <<>>
    ELSE LET l == At(lp, i)
             range == MatchRange(ty, rk, rp, At(lk, l), pred)
         IN (IF range = <<>> THEN Unmatched(kind, l) ELSE Product(<<l>>, range))
                \o RangeScan(ty, lk, rk, lp, rp, i + 1, kind, pred)

\* A join that applies the predicate also to a Cross join.
join_pairs_cross_filtered(ty, lk, rk, lp, rp, kind, pred) ==
    IF pred = "Equal" THEN MergeScan(ty, lk, rk, lp, rp, 0, 0, kind)
    ELSE RangeScan(ty, lk, rk, lp, rp, 0, kind, pred)

\* The (left row, right row) pairs a join emits, given the sort orders lp and
\* rp of the key columns lk and rk.
join_pairs(ty, lk, rk, lp, rp, kind, pred) ==
    IF kind = "Cross" THEN Product(lp, rp)
    ELSE IF pred = "Equal" THEN MergeScan(ty, lk, rk, lp, rp, 0, 0, kind)
    ELSE RangeScan(ty, lk, rk, lp, rp, 0, kind, pred)

\* The type and the sort order of a join key of a view (get_field_data,
\* then sort_order); no order when the view lacks the field.
JoinKeyType(view, key) ==
    LET vf == view.fields[KeyIndex(view.fields, key)]
    IN StoreGetFieldType(stores[FrameOf(view, vf).store], vf.rident.ident)

JoinKeyColumn(pm, view, key) ==
    FieldColumn(pm, view, view.fields[KeyIndex(view.fields, key)])

JoinSortOrders(pm, view, key) ==
    IF has_field(view, key)
    THEN SortOrders(JoinKeyType(view, key), JoinKeyColumn(pm, view, key))
    ELSE {<<>>}

\* The output row of a (left row, right row) pair: the values of the left
\* fields, then those of the right fields, Na where there is no right row.
JoinedRow(left_rows, right_rows, right_nfields, pair) ==
    left_rows[pair[1] + 1]
        \o (IF pair[2] = NoRow THEN [k \in 1..right_nfields |-> Na]
            ELSE right_rows[pair[2] + 1])

NoOutput == [fields |-> <<>>, rows |-> <<>>]

\* The rows a join puts out for the sort orders left_perm and right_perm.
JoinOutput(pm, left, right, join, fields, left_perm, right_perm) ==
    LET pairs == join_pairs(JoinKeyType(left, join.left_field),
                            JoinKeyColumn(pm, left, join.left_field),
                            JoinKeyColumn(pm, right, join.right_field),
                            left_perm, right_perm, join.kind, join.predicate)
        left_rows == Rows(pm, left)
        right_rows == Rows(pm, right)
    IN [fields |-> [k \in 1..Len(fields) |-> fields[k].rident.ident],
        rows |-> [k \in 1..Len(pairs) |->
                     JoinedRow(left_rows, right_rows, nfields(right), pairs[k])]]

JoinFailed(pm, status, err) ==
    [status |-> status, err |-> err, pm |-> pm, out |-> NoOutput]

\* A join that sorts the left view by its key instead of computing the order.
sort_merge_join_sorting(pm, left, right, join) ==
    IF ~has_field(left, join.left_field)
    THEN {JoinFailed(pm, "FieldNotFound", <<join.left_field>>)}
    ELSE IF ~has_field(right, join.right_field)
    THEN {JoinFailed(pm, "FieldNotFound", <<join.right_field>>)}
    ELSE LET ms == compute_merged_stores(pm, left, right)
             mf == compute_merged_field_list(left, right, ms.right_store_indices)
         IN {[status |-> IF mf.ok THEN "Ok" ELSE "FieldCollision",
              err |-> IF mf.ok THEN <<>> ELSE mf.err,
              pm |-> ViewSortBy(pm, left, join.left_field, left_perm).pm,
              out |-> IF mf.ok
                      THEN JoinOutput(pm, left, right, join, mf.fields,
                                      left_perm, right_perm)
                      ELSE NoOutput] :
                left_perm \in JoinSortOrders(pm, left, join.left_field),
                right_perm \in JoinSortOrders(pm, right, join.right_field)}

\* sort_merge_join: the results it can return, one for each pair of sort
\* orders the unstable sorts of the two keys can produce.
sort_merge_join(pm, left, right, join) ==
    IF ~has_field(left, join.left_field)
    THEN {JoinFailed(pm, "FieldNotFound", <<join.left_field>>)}
    ELSE IF ~has_field(right, join.right_field)
    THEN {JoinFailed(pm, "FieldNotFound", <<join.right_field>>)}
    ELSE LET ms == compute_merged_stores(pm, left, right)
             mf == compute_merged_field_list(left, right, ms.right_store_indices)
         IN IF ~mf.ok
            THEN {JoinFailed(pm, "FieldCollision", mf.err)}
            ELSE {[status |-> "Ok", err |-> <<>>, pm |-> pm,
                   out |-> JoinOutput(pm, left, right, join, mf.fields,
                                      left_perm, right_perm)] :
                     left_perm \in JoinSortOrders(pm, left, join.left_field),
                     right_perm \in JoinSortOrders(pm, right, join.right_field)}

\* ---------------------------------------------------------------- actions
\* The arguments the operations are called with.
FilterArgs == {<<"a", "ge1">>, <<"b", "eq1">>}
SortNames == {"a", "c"}
VLists == {<<"b", "zz">>}
SubviewLists == {<<"a">>, <<"a", "zz">>}
RenamePairs == {<<"b", "x">>, <<"x", "b">>, <<"b", "b">>, <<"c", "x">>}
Joins ==
    {[kind |-> "Inner", predicate |-> "Equal", left_field |-> "b", right_field |-> "c"],
     [kind |-> "Outer", predicate |-> "LessThan", left_field |-> "a", right_field |-> "a"]}

\* The caller's variables that hold views, in the order they are assigned.
ViewNames == <<"dv1", "dv2", "dv3">>

NoChain == [on |-> FALSE, field |-> "", pred |-> "", pre |-> <<>>]

NoLast ==
    [op |-> "init", view |-> 0, other |-> 0, field |-> "", new |-> "", pred |-> "",
     list |-> <<>>, status |-> "Ok", err |-> <<>>, idx |-> <<>>, pre |-> <<>>,
     made |-> 0, chain |-> NoChain, kind |-> "", out |-> NoOutput,
     ty |-> "", res |-> <<>>]

\* No column is under construction and no join has been applied.
NoColumn ==
    [md |-> MaskedNew, op |-> "none", arg |-> <<>>, pre |-> MaskedNew,
     pushed |-> <<>>, got |-> None]
NoJoin == [lk |-> <<>>, rk |-> <<>>, kind |-> "", pred |-> "",
           lp |-> <<>>, rp |-> <<>>, out |-> <<>>, done |-> FALSE]

\* The views part of the state at program start.
NoViews ==
    /\ free = 1..Len(stores)
    /\ perms = <<>>
    /\ views = <<>>
    /\ last = NoLast
    /\ steps = 0

Init == NoViews /\ column = NoColumn /\ joined = NoJoin

\* A caller stops at the first error an operation returns.
Running == last.status = "Ok"

\* An operation that makes a new view.
Make ==
    /\ Running /\ Len(views) < Len(ViewNames)
    /\ UNCHANGED <<steps, column, joined>>

\* An operation on an existing view, or one that fails.
Step ==
    /\ Running /\ steps < MaxSteps /\ steps' = steps + 1
    /\ UNCHANGED <<column, joined>>

\* Stores of equal content are numbered in the order they are put in a view.
FromStore(sid) ==
    /\ Make
    /\ \A t \in free : stores[t] = stores[sid] => sid <= t
    /\ free' = free \ {sid}
    /\ perms' = Append(perms, NoPerm)
    /\ views' = Append(views, ViewFromStore(sid, Len(perms) + 1))
    /\ last' = [NoLast EXCEPT !.op = "from", !.made = Len(views) + 1]

CloneView(i) ==
    /\ Make
    /\ LET c == ViewClone(perms, views[i])
       IN /\ perms' = c.pm
          /\ views' = Append(views, c.view)
          /\ last' = [NoLast EXCEPT !.op = "clone", !.view = i,
                                    !.made = Len(views) + 1]
    /\ UNCHANGED free

SubviewOf(i, list, strict) ==
    LET r == ViewSub(perms, views[i], list, strict)
    IN /\ IF r.ok THEN Make ELSE Step
       /\ perms' = r.pm
       /\ views' = IF r.ok THEN Append(views, r.view) ELSE views
       /\ last' = [NoLast EXCEPT !.op = IF strict THEN "subview" ELSE "v",
                                 !.view = i, !.list = list,
                                 !.status = IF r.ok THEN "Ok" ELSE "FieldNotFound",
                                 !.err = r.err,
                                 !.made = IF r.ok THEN Len(views) + 1 ELSE 0]
       /\ UNCHANGED free

V(i, list) == SubviewOf(i, list, FALSE)

Subview(i, list) == SubviewOf(i, list, TRUE)

Rename(i, orig, new) ==
    /\ Step
    /\ LET r == ViewRename(views[i], orig, new)
       IN /\ views' = [views EXCEPT ![i] = r.view]
          /\ last' = [NoLast EXCEPT !.op = "rename", !.view = i, !.field = orig,
                                    !.new = new, !.status = r.status, !.err = r.err]
    /\ UNCHANGED <<free, perms>>

Merge(i, j) ==
    LET r == ViewMerge(perms, views[i], views[j])
    IN /\ IF r.status = "Ok" THEN Make ELSE Step
       /\ perms' = r.pm
       /\ views' = IF r.status = "Ok" THEN Append(views, r.view) ELSE views
       /\ last' = [NoLast EXCEPT !.op = "merge", !.view = i, !.other = j,
                                 !.status = r.status, !.err = r.err,
                                 !.made = IF r.status = "Ok"
                                          THEN Len(views) + 1 ELSE 0]
       /\ UNCHANGED free

Filter(i, ident, pred) ==
    /\ Step
    /\ LET r == ViewFilter(perms, views[i], ident, pred)
           chained == /\ r.status = "Ok"
                      /\ last.op = "filter" /\ last.status = "Ok" /\ last.view = i
       IN /\ perms' = r.pm
          /\ last' = [NoLast EXCEPT
                        !.op = "filter", !.view = i, !.field = ident, !.pred = pred,
                        !.status = r.status,
                        !.err = IF r.status = "Ok" THEN <<>> ELSE <<ident>>,
                        !.idx = r.filter,
                        !.pre = IF r.status = "Ok" THEN Rows(perms, views[i]) ELSE <<>>,
                        !.chain = IF chained
                                  THEN [on |-> TRUE, field |-> last.field,
                                        pred |-> last.pred, pre |-> last.pre]
                                  ELSE NoChain]
    /\ UNCHANGED <<free, views>>

SortBy(i, ident) ==
    /\ Step
    /\ IF contains_key(views[i].fields, ident)
       THEN \E sorted \in ViewSortOrders(perms, views[i], ident) :
               LET r == ViewSortBy(perms, views[i], ident, sorted)
               IN /\ perms' = r.pm
                  /\ last' = [NoLast EXCEPT !.op = "sort_by", !.view = i,
                                            !.field = ident, !.status = r.status,
                                            !.idx = r.filter]
       ELSE /\ perms' = perms
            /\ last' = [NoLast EXCEPT !.op = "sort_by", !.view = i, !.field = ident,
                                      !.status = "FieldNotFound", !.err = <<ident>>]
    /\ UNCHANGED <<free, views>>

Join(i, j, join) ==
    /\ Step
    /\ \E r \in sort_merge_join(perms, views[i], views[j], join) :
               /\ perms' = r.pm
               /\ last' = [NoLast EXCEPT !.op = "join", !.view = i, !.other = j,
                                         !.field = join.left_field,
                                         !.new = join.right_field,
                                         !.kind = join.kind, !.pred = join.predicate,
                                         !.status = r.status, !.err = r.err,
                                         !.out = r.out]
    /\ UNCHANGED <<free, views>>

Next ==
    \/ \E sid \in free : FromStore(sid)
    \/ \E i \in 1..Len(views) : CloneView(i)
    \/ \E i \in 1..Len(views), list \in VLists : V(i, list)
    \/ \E i \in 1..Len(views), list \in SubviewLists : Subview(i, list)
    \/ \E i \in 1..Len(views), pair \in RenamePairs : Rename(i, pair[1], pair[2])
    \/ \E i, j \in 1..Len(views) : i # j /\ Merge(i, j)
    \/ \E i \in 1..Len(views), arg \in FilterArgs : Filter(i, arg[1], arg[2])
    \/ \E i \in 1..Len(views), ident \in SortNames : SortBy(i, ident)
    \/ \E i, j \in 1..Len(views), join \in Joins : i # j /\ Join(i, j, join)

Spec == Init /\ [][Next]_vars

\* ------------------------------------------------------- reads of a view
\* The arguments of the filters and typed accesses of the reading program.
ReadFilterArgs ==
    {<<"a", "ge1">>, <<"c", "never">>, <<"b", "eq1">>, <<"x", "ge1">>}
ReadSortNames == {"b", "x"}
TMapArgs ==
    {<<"a", "Unsigned">>, <<"a", "Float">>, <<"x", "Float">>, <<"c", "Unsigned">>}

\* A read leaves the views as they are.
Read ==
    /\ Running
    /\ UNCHANGED <<free, perms, views, steps, column, joined>>

TMap(i, ident, ty) ==
    /\ Read
    /\ LET r == ViewTMap(perms, views[i], ident, ty)
       IN last' = [NoLast EXCEPT !.op = "tmap", !.view = i, !.field = ident,
                                 !.ty = ty, !.status = r.status, !.err = r.err,
                                 !.res = r.res]

IsEmpty(i) ==
    /\ Read
    /\ last' = [NoLast EXCEPT !.op = "is_empty", !.view = i,
                              !.res = <<is_empty(perms, views[i])>>]

\* A program that builds views of one store each and reads them.
NextRead ==
    \/ \E sid \in free : FromStore(sid)
    \/ \E i \in 1..Len(views), list \in VLists : V(i, list)
    \/ \E i \in 1..Len(views), pair \in RenamePairs : Rename(i, pair[1], pair[2])
    \/ \E i \in 1..Len(views), list \in SubviewLists : Subview(i, list)
    \/ \E i \in 1..Len(views), arg \in ReadFilterArgs : Filter(i, arg[1], arg[2])
    \/ \E i \in 1..Len(views), ident \in ReadSortNames : SortBy(i, ident)
    \/ \E i \in 1..Len(views), arg \in TMapArgs : TMap(i, arg[1], arg[2])
    \/ \E i \in 1..Len(views) : IsEmpty(i)

SpecRead == Init /\ [][NextRead]_vars

\* ------------------------------------------------- columns under construction
\* The values pushed, and the vectors a column is made from.
Values == {1, 2}
MaybeValues == {Na} \cup {Exists(x) : x \in Values}
SeqsUpTo(S, n) == UNION {[1..k -> S] : k \in 0..n}

\* The values a column was given, in order (history).
Pushed(op, arg) ==
    CASE op = "new" -> <<>>
      [] op = "new_with_elem" -> <<arg>>
      [] op = "from_vec" -> [i \in 1..Len(arg) |-> Exists(arg[i])]
      [] op = "from_masked_vec" -> arg
      [] op = "push" -> Append(column.pushed, arg)

Made(md, op, arg) ==
    /\ column' = [md |-> md, op |-> op, arg |-> arg, pre |-> column.md,
                  pushed |-> Pushed(op, arg), got |-> None]
    /\ UNCHANGED <<free, perms, views, last, steps, joined>>

ColumnNew == Made(MaskedNew, "new", <<>>)

ColumnNewWithElem(value) == Made(new_with_elem(value), "new_with_elem", value)

ColumnFromVec(v) == Made(from_vec(v), "from_vec", v)

ColumnFromMaskedVec(v) == Made(from_masked_vec(v), "from_masked_vec", v)

ColumnPush(value) ==
    /\ column.op # "none"
    /\ Len(column.md.data) < MaxLen
    /\ Made(MaskedPush(column.md, value), "push", value)

\* A read of the column at an index, in or out of bounds.
ColumnGetData(idx) ==
    /\ column.op # "none"
    /\ column' = [column EXCEPT !.op = "get_data", !.arg = idx, !.pre = column.md,
                                !.got = get_data(column.md, idx)]
    /\ UNCHANGED <<free, perms, views, last, steps, joined>>

NextMasked ==
    \/ ColumnNew
    \/ \E value \in MaybeValues : ColumnNewWithElem(value)
    \/ \E v \in SeqsUpTo(Values, MaxLen) : ColumnFromVec(v)
    \/ \E v \in SeqsUpTo(MaybeValues, MaxLen) : ColumnFromMaskedVec(v)
    \/ \E value \in MaybeValues : ColumnPush(value)
    \/ \E idx \in 0..(MaxLen + 1) : ColumnGetData(idx)

SpecMasked == Init /\ [][NextMasked]_vars

\* ------------------------------------------------------ joins of key columns
\* The key columns a join is applied to.
KeyColumns == SeqsUpTo(MaybeValues, MaxKeys)

InitJoin ==
    /\ NoViews
    /\ column = NoColumn
    /\ joined \in {[NoJoin EXCEPT !.lk = l, !.rk = r] : l, r \in KeyColumns}

\* One join of the two key columns: the sort orders of both, then the scan.
JoinApply(kind, pred) ==
    /\ ~joined.done
    /\ \E lp \in SortOrders("Unsigned", joined.lk),
          rp \in SortOrders("Unsigned", joined.rk) :
            joined' = [joined EXCEPT !.kind = kind, !.pred = pred,
                                     !.lp = lp, !.rp = rp, !.done = TRUE,
                                     !.out = join_pairs("Unsigned", joined.lk, joined.rk,
                                                        lp, rp, kind, pred)]
    /\ UNCHANGED <<free, perms, views, last, steps, column>>

NextJoin == \E kind \in JoinKinds, pred \in Predicates : JoinApply(kind, pred)

SpecJoin == InitJoin /\ [][NextJoin]_vars

\* ------------------------------------------------------------ properties
\* The view the last operation acted on, its partner in a merge, and the view
\* the last operation made.
LastView == views[last.view]
LastOther == views[last.other]
LastMade == views[last.made]

LastOk(op) == last.op = op /\ last.status = "Ok"

\* The set of elements of a sequence.
Range(s) == {s[i] : i \in 1..Len(s)}

\* The position of a field name in the field map of the last view.
LastPos(name) == KeyIndex(LastView.fields, name)

\* C1: after a successful filter of a view on field f with predicate P, the
\* view shows exactly the rows it showed before whose value of f satisfies P,
\* in their previous relative order, and nrows is the number of those rows.
C1_FilterKeepsMatchingRows ==
    LastOk("filter") =>
        LET kept == SelectSeq(last.pre,
                        LAMBDA row : Matches(last.pred, row[LastPos(last.field)]))
        IN /\ Rows(perms, LastView) = kept
           /\ ViewNrows(perms, LastView) = Len(kept)

\* A filter of a view over two frames that drops some rows and keeps some.
C1_Witness ==
    /\ LastOk("filter")
    /\ Len(LastView.frames) = 2
    /\ 0 < ViewNrows(perms, LastView)
    /\ ViewNrows(perms, LastView) < Len(last.pre)

\* C2: filtering with P1 and then with P2 shows exactly the rows that satisfy
\* both, and the second filter is evaluated on the rows the first one kept.
C2_FiltersCompose ==
    (LastOk("filter") /\ last.chain.on) =>
        LET first(row) == Matches(last.chain.pred, row[LastPos(last.chain.field)])
            second(row) == Matches(last.pred, row[LastPos(last.field)])
        IN /\ last.pre = SelectSeq(last.chain.pre, first)
           /\ Rows(perms, LastView) =
                  SelectSeq(last.chain.pre, LAMBDA row : first(row) /\ second(row))

\* Two filters on different fields, each of which drops a row the other keeps.
C2_Witness ==
    /\ LastOk("filter") /\ last.chain.on
    /\ last.field # last.chain.field
    /\ 0 < ViewNrows(perms, LastView)
    /\ ViewNrows(perms, LastView) < Len(last.pre)
    /\ Len(last.pre) < Len(last.chain.pre)

\* The column the merged view shows for its k-th field, and the column the
\* operand the field came from shows for it.
MergedColumn(k) == FieldColumn(perms, LastMade, LastMade.fields[k])
OperandColumn(k) ==
    IF k <= nfields(LastView)
    THEN FieldColumn(perms, LastView, LastView.fields[k])
    ELSE FieldColumn(perms, LastOther,
                     LastOther.fields[k - nfields(LastView)])

\* C3: in a successful merge every field of the merged view shows, row by
\* row, the values the operand it came from shows for that field, also when
\* both operands are differently sorted or filtered views of one store.
C3_MergeKeepsValues ==
    LastOk("merge") =>
        \A k \in 1..nfields(LastMade) : MergedColumn(k) = OperandColumn(k)

\* C4: a successful merge has the row count of both operands, as many fields
\* as both operands together, and the fields of A in A's order followed by
\* the fields of B in B's order.
C4_MergeShape ==
    LastOk("merge") =>
        /\ ViewNrows(perms, LastMade) = ViewNrows(perms, LastView)
        /\ ViewNrows(perms, LastMade) = ViewNrows(perms, LastOther)
        /\ nfields(LastMade) = nfields(LastView) + nfields(LastOther)
        /\ fieldnames(LastMade) = fieldnames(LastView) \o fieldnames(LastOther)

\* A merge of a view of two fields with a view of one field.
C4_Witness ==
    /\ LastOk("merge")
    /\ nfields(LastView) = 2
    /\ nfields(LastOther) = 1
    /\ ViewNrows(perms, LastMade) > 0

\* C5: a merge of two views whose visible row counts differ returns
\* DimensionMismatch and makes no view.
C5_Step ==
    (/\ last'.op = "merge"
     /\ ViewNrows(perms, views[last'.view]) # ViewNrows(perms, views[last'.other]))
    => /\ last'.status = "DimensionMismatch"
       /\ last'.made = 0
       /\ views' = views
       /\ perms' = perms

C5_MergeDimensionMismatch == [][C5_Step]_vars

\* A merge refused because a filter left one operand with fewer rows.
C5_Witness ==
    /\ last.op = "merge"
    /\ last.status = "DimensionMismatch"
    /\ ViewNrows(perms, LastView) # ViewNrows(perms, LastOther)
    /\ \E k \in 1..Len(LastView.frames) : perms[LastView.frames[k].perm].some

\* The names of B that A has too, in B's field order.
CommonNames(a, b) ==
    SelectSeq(fieldnames(b), LAMBDA name : has_field(a, name))

\* C6: a merge of two views with equal row counts that have a field name in
\* common returns FieldCollision carrying exactly the common names, in B's
\* field order.
C6_MergeFieldCollision ==
    (/\ last.op = "merge"
     /\ ViewNrows(perms, LastView) = ViewNrows(perms, LastOther)
     /\ CommonNames(LastView, LastOther) # <<>>)
    => /\ last.status = "FieldCollision"
       /\ last.err = CommonNames(LastView, LastOther)

\* What a view shows: its field names, its row count and its rows.
Shown(pm, view) ==
    [names |-> fieldnames(view), nrows |-> ViewNrows(pm, view),
     rows |-> Rows(pm, view)]

\* C7: a filter, sort_by or rename of one view leaves the field names, the
\* row count, the row order and every value of every other view as they
\* were, also for clones and subviews over the same store.
C7_Step ==
    last'.op \in {"filter", "sort_by", "rename"} =>
        \A i \in 1..Len(views) :
            i # last'.view => Shown(perms', views'[i]) = Shown(perms, views[i])

C7_SiblingsUnaffected == [][C7_Step]_vars

\* A filtered or sorted view next to an untouched view of the same store
\* that shows other rows.
C7_Witness ==
    /\ last.op \in {"filter", "sort_by"} /\ last.status = "Ok"
    /\ \E i \in 1..Len(views) :
          /\ i # last.view
          /\ views[i].frames[1].store = LastView.frames[1].store
          /\ ~perms[views[i].frames[1].perm].some
          /\ PhysRows(perms, views[i]) # PhysRows(perms, LastView)

\* C8: all frames of a view have the same logical row count, and every
\* logical row of the view is one of the records the view had when its frames
\* were put together (the fields of different frames stay row-aligned).
C8_FramesAligned ==
    \A v \in 1..Len(views) :
        /\ \A k \in 1..Len(views[v].frames) :
              FrameNrows(perms, views[v].frames[k]) = ViewNrows(perms, views[v])
        /\ \A i \in 1..ViewNrows(perms, views[v]) :
              PhysRow(perms, views[v], i - 1) \in Range(views[v].origin)

\* A view over two frames whose rows a sort has moved.
C8_Witness ==
    /\ LastOk("sort_by")
    /\ Len(LastView.frames) = 2
    /\ perms[LastView.frames[1].perm].some
    /\ perms[LastView.frames[2].perm].some
    /\ PhysRows(perms, LastView) # LastView.origin

\* The column of the field the last operation named, as the view shows it.
LastColumn == FieldColumn(perms, LastView, LastView.fields[LastPos(last.field)])

\* The specified order of keys: Na, then NaN, then the numbers ascending.
SortClass(m) == IF is_na(m) THEN 0 ELSE IF is_nan(unwrap(m)) THEN 1 ELSE 2
InSortOrder(x, y) ==
    \/ SortClass(x) < SortClass(y)
    \/ /\ SortClass(x) = SortClass(y)
       /\ SortClass(x) = 2 => unwrap(x) <= unwrap(y)

\* C9: after sort_by(f) the column of f reads Na values first, then NaN
\* values, then the other values ascending (+infinity last), and the sort
\* order computed is a list of the row indices.
C9_SortedColumn ==
    LastOk("sort_by") =>
        /\ \A i, j \in 1..Len(LastColumn) :
              i < j => InSortOrder(LastColumn[i], LastColumn[j])
        /\ Len(last.idx) = Len(LastColumn)
        /\ Range(last.idx) = 0..(Len(LastColumn) - 1)

\* A sorted float column that holds Na, NaN, a number and +infinity.
C9_Witness ==
    /\ LastOk("sort_by")
    /\ Len(LastColumn) = 4
    /\ is_na(LastColumn[1])
    /\ LastColumn[2] = Exists(NaN)
    /\ LastColumn[4] = Exists(Inf)

\* C10: the sort order is stable: of two rows with equal keys, the one that
\* came first before the sort comes first after it.
C10_SortStable ==
    LastOk("sort_by") =>
        \A i, j \in 1..Len(LastColumn) :
            (i < j /\ LastColumn[i] = LastColumn[j]) => last.idx[i] < last.idx[j]

\* C11: rename(old, new) returns FieldCollision([new]) whenever new is a
\* field name of the view (also when old is absent or equal to new), otherwise
\* FieldNotFound(old) when old is not a field; a failed rename leaves the
\* field names, their order and their routing as they were.
C11_Step ==
    last'.op = "rename" =>
        LET view == views[last'.view]
        IN /\ has_field(view, last'.new) =>
                 /\ last'.status = "FieldCollision"
                 /\ last'.err = <<last'.new>>
           /\ (~has_field(view, last'.new) /\ ~has_field(view, last'.field)) =>
                 /\ last'.status = "FieldNotFound"
                 /\ last'.err = <<last'.field>>
           /\ last'.status # "Ok" => (views' = views /\ perms' = perms)

C11_RenameErrors == [][C11_Step]_vars

\* A rename to an existing name of a field that the view does not have.
C11_Witness ==
    /\ last.op = "rename"
    /\ last.status = "FieldCollision"
    /\ ~has_field(LastView, last.field)
    /\ has_field(LastView, last.new)

\* The requested names that the view has, and the first one it has not.
Present(view, list) == SelectSeq(list, LAMBDA name : has_field(view, name))
Absent(view, list) == SelectSeq(list, LAMBDA name : ~has_field(view, name))

\* The subview made by the step keeps the parent's rows and routes every
\* field it keeps as the parent does.
SubviewOfParent(parent, pm, sub, pmsub) ==
    /\ ViewNrows(pmsub, sub) = ViewNrows(pm, parent)
    /\ Len(sub.frames) = Len(parent.frames)
    /\ \A k \in 1..Len(sub.fields) :
          LET vf == sub.fields[k]
              pf == parent.fields[KeyIndex(parent.fields, vf.key)]
          IN /\ has_field(parent, vf.key)
             /\ vf.rident = pf.rident
             /\ vf.frame_idx = pf.frame_idx
             /\ FrameOf(sub, vf).store = FrameOf(parent, pf).store
             /\ FieldColumn(pmsub, sub, vf) = FieldColumn(pm, parent, pf)

\* C12: the strict subview fails with FieldNotFound naming the first
\* requested field the view lacks and makes no view; the lenient v never
\* fails and keeps exactly the requested fields that exist; a subview has the
\* row count of its parent and routes each kept field as the parent does.
C12_Step ==
    last'.op \in {"v", "subview"} =>
        LET parent == views[last'.view]
            missing == Absent(parent, last'.list)
            fails == last'.op = "subview" /\ missing # <<>>
        IN /\ fails => /\ last'.status = "FieldNotFound"
                       /\ last'.err = <<Head(missing)>>
                       /\ views' = views
           /\ ~fails => /\ last'.status = "Ok"
                        /\ Len(views') = Len(views) + 1
                        /\ fieldnames(views'[Len(views')]) = Present(parent, last'.list)
                        /\ SubviewOfParent(parent, perms, views'[Len(views')], perms')

C12_SubviewStrictLenient == [][C12_Step]_vars

\* A strict subview that fails on the second of two requested names, the
\* first being present.
C12_Witness ==
    /\ last.op = "subview"
    /\ last.status = "FieldNotFound"
    /\ Len(last.list) = 2
    /\ has_field(LastView, last.list[1])
    /\ last.err = <<last.list[2]>>

\* C20: after any sequence of constructor and push calls the data vector and
\* the mask of a column have one length, which len() reports; a push of Na
\* appends the default placeholder to the data and a cleared bit to the mask.
C20_MaskAndDataSameLength ==
    /\ Len(column.md.data) = Len(column.md.mask)
    /\ MaskedLen(column.md) = Len(column.md.mask)
    /\ (column.op = "push" /\ column.arg = Na) =>
          /\ column.md.data = Append(column.pre.data, Default)
          /\ column.md.mask = Append(column.pre.mask, FALSE)

\* A push of Na onto a column that holds an existing value.
C20_Witness ==
    /\ column.op = "push"
    /\ column.arg = Na
    /\ Len(column.pre.data) = 2
    /\ \E i \in 1..2 : column.pre.mask[i]

\* C21: reading a column at idx returns IndexError{idx, length} exactly when
\* idx is not below the length, and otherwise the value given at idx, Exists
\* or Na; a column made by from_masked_vec(v) reads back as v.
C21_GetData ==
    /\ column.op = "get_data" =>
          LET idx == column.arg
              len == Len(column.pushed)
          IN /\ (column.got = IndexError(idx, len)) <=> (idx >= len)
             /\ idx < len => column.got = At(column.pushed, idx)
             /\ \A i \in 0..MaxLen, l \in 0..MaxLen :
                   column.got = IndexError(i, l) => i = idx /\ l = len
    /\ column.op = "from_masked_vec" =>
          [i \in 1..Len(column.arg) |-> get_data(column.md, i - 1)] = column.arg

\* A read of a position that was given Na, in a column that also holds a
\* value.
C21_Witness ==
    /\ column.op = "get_data"
    /\ column.arg < Len(column.pushed)
    /\ At(column.pushed, column.arg) = Na
    /\ column.got = Na
    /\ \E i \in 1..Len(column.pushed) : exists(column.pushed[i])

\* A read past the end of a column that holds values.
C21_ErrorWitness ==
    /\ column.op = "get_data"
    /\ Len(column.pushed) > 0 /\ column.arg >= Len(column.pushed)
    /\ column.got = IndexError(column.arg, Len(column.pushed))

\* The rows of the key columns of the join applied, the rank of a key in the
\* key order (Na before every value) and the predicates as relations on keys.
LeftRows == 0..(Len(joined.lk) - 1)
RightRows == 0..(Len(joined.rk) - 1)
KeyRank(m) == IF is_na(m) THEN 0 - 1 ELSE unwrap(m)
KeyHolds(pred, x, y) ==
    CASE pred = "Equal" -> KeyRank(x) = KeyRank(y)
      [] pred = "LessThan" -> KeyRank(x) < KeyRank(y)
      [] pred = "LessThanEqual" -> KeyRank(x) <= KeyRank(y)
      [] pred = "GreaterThan" -> KeyRank(x) > KeyRank(y)
      [] pred = "GreaterThanEqual" -> KeyRank(x) >= KeyRank(y)

\* The pairs of rows whose keys satisfy the predicate.
Matching(pred) ==
    {pair \in LeftRows \X RightRows :
        KeyHolds(pred, At(joined.lk, pair[1]), At(joined.rk, pair[2]))}

NoDuplicates(seq) == Cardinality(Range(seq)) = Len(seq)

Applied(kind, pred) == joined.done /\ joined.kind = kind /\ joined.pred = pred

\* The number of rows of a key column with key k, and the sum over the keys
\* in S of the left count times the right count.
CountKey(keys, k) == Cardinality({i \in 1..Len(keys) : keys[i] = k})
RECURSIVE SumOfProducts(_)
SumOfProducts(S) ==
    IF S = {} THEN 0
    ELSE LET k == CHOOSE x \in S : TRUE
         IN CountKey(joined.lk, k) * CountKey(joined.rk, k) + SumOfProducts(S \ {k})

MatchedRows(out) == SelectSeq(out, LAMBDA pair : pair[2] # NoRow)
UnmatchedLeft(pred) ==
    {l \in LeftRows : \A r \in RightRows : <<l, r>> \notin Matching(pred)}

MatchedCursors(l) ==
    {j \in RightRows : <<l, At(joined.rp, j)>> \in Range(joined.out)}
PrefixOrSuffix(P, n) ==
    \/ P = 0..(Cardinality(P) - 1)
    \/ P = (n - Cardinality(P))..(n - 1)

OrderedPredicates == Predicates \ {"Equal"}

JoinKeysPresent == has_field(LastView, last.field) /\ has_field(LastOther, last.new)

\* The field names of the left view, then those of the right view that the
\* left view does not have.
DeduplicatedUnion(a, b) ==
    fieldnames(a) \o SelectSeq(fieldnames(b), LAMBDA name : ~has_field(a, name))

\* C17: a join fails with FieldNotFound when the left or the right key is not
\* a field of its view, fails with FieldCollision when a name other than the
\* join keys is in both views, and, when the only common name is the join
\* key, does not fail with FieldCollision and outputs the deduplicated union
\* of the left and right fields.
C17_JoinErrors ==
    last.op = "join" =>
        LET common == Range(CommonNames(LastView, LastOther))
        IN /\ ~JoinKeysPresent => last.status = "FieldNotFound"
           /\ (JoinKeysPresent /\ common \ {last.field, last.new} # {})
                  => last.status = "FieldCollision"
           /\ (JoinKeysPresent /\ last.field = last.new /\ common = {last.field})
                  => /\ last.status # "FieldCollision"
                     /\ last.out.fields = DeduplicatedUnion(LastView, LastOther)

\* The parts of C17 the code agrees with: a missing key is FieldNotFound, a
\* common name, the join key included, is FieldCollision naming the first
\* such field of the right view, and without one the join goes on.
C17_AsCoded ==
    last.op = "join" =>
        LET common == CommonNames(LastView, LastOther)
        IN /\ ~JoinKeysPresent => last.status = "FieldNotFound"
           /\ (JoinKeysPresent /\ common # <<>>)
                  => last.status = "FieldCollision" /\ last.err = <<common[1]>>
           /\ (JoinKeysPresent /\ common = <<>>)
                  => /\ last.status = "Ok"
                     /\ Len(last.out.fields) = nfields(LastView) + nfields(LastOther)

\* A join on a key that is the only name the two views have in common.
C17_KeyOnlyCommon ==
    /\ last.op = "join" /\ JoinKeysPresent /\ last.field = last.new
    /\ Range(CommonNames(LastView, LastOther)) = {last.field}

\* C18: a join or a merge, successful or failed, leaves both input views
\* with the field names, field order, row count, row order and values they
\* had before the call.
C18_Step ==
    last'.op \in {"join", "merge"} =>
        \A i \in {last'.view, last'.other} :
            /\ views'[i] = views[i]
            /\ Shown(perms', views'[i]) = Shown(perms, views[i])

C18_InputsUnchanged == [][C18_Step]_vars

\* A successful join with output rows, on a left key column that is not in
\* sort order.
C18_Witness ==
    /\ LastOk("join") /\ last.out.rows # <<>>
    /\ [k \in 1..ViewNrows(perms, LastView) |-> k - 1]
           \notin JoinSortOrders(perms, LastView, last.field)

\* A failed merge and a failed join have inputs as well.
C18_FailedWitness ==
    /\ last.op \in {"join", "merge"} /\ last.status # "Ok"
    /\ ViewNrows(perms, LastView) > 0

\* ------------------------------------------------- frames of a merged view
\* The stores of the frames of a view, in frame order.
FrameStores(view) == [k \in 1..Len(view.frames) |-> view.frames[k].store]

\* The frames of b whose store no frame of a has, in frame order.
NewFrameStores(a, b) ==
    SelectSeq(FrameStores(b), LAMBDA sid : sid \notin Range(FrameStores(a)))

\* C19: a merge lists the stores of A's frames followed by the stores of B's
\* frames that A does not hold, each store once by identity also when
\* another store has the same content, and every field of B is in the result
\* on the frame that holds the store of the frame it used in B.
C19_MergedFrames ==
    LastOk("merge") =>
        /\ FrameStores(LastMade) = FrameStores(LastView) \o NewFrameStores(LastView, LastOther)
        /\ \A k, l \in 1..Len(LastMade.frames) :
              k # l => LastMade.frames[k].store # LastMade.frames[l].store
        /\ \A k \in 1..nfields(LastOther) :
              LET right_field == LastOther.fields[k]
                  new_field == LastMade.fields[KeyIndex(LastMade.fields, right_field.key)]
              IN /\ has_field(LastMade, right_field.key)
                 /\ new_field.rident = right_field.rident
                 /\ FrameOf(LastMade, new_field).store
                        = FrameOf(LastOther, right_field).store

\* A merge of two views over two stores of the same content: the result has
\* a frame for each, and the field of B is on the second.
C19_Witness ==
    /\ LastOk("merge")
    /\ \E k \in 1..Len(LastView.frames), l \in 1..Len(LastOther.frames) :
          /\ LastView.frames[k].store # LastOther.frames[l].store
          /\ stores[LastView.frames[k].store] = stores[LastOther.frames[l].store]
    /\ nfields(LastOther) > 0
    /\ Len(LastMade.frames) = 2

\* A merge of two views over the same store: the result has one frame, and
\* the field of B is on it.
C19_SharedWitness ==
    /\ LastOk("merge")
    /\ FrameStores(LastView) = FrameStores(LastOther)
    /\ nfields(LastOther) > 0
    /\ Len(LastMade.frames) = 1

\* --------------------------------------------------------- reads of a view
\* C22: a typed access to a field of a view with a type other than the type
\* the field is stored with returns IncompatibleTypes and no result; with the
\* stored type it returns the function's result over the rows the view shows
\* (here the function collects the values).
C22_TypedAccess ==
    (last.op = "tmap" /\ has_field(LastView, last.field)) =>
        LET pos == LastPos(last.field)
            view_field == LastView.fields[pos]
            stored == StoreField(stores[FrameOf(LastView, view_field).store],
                                 view_field.rident.ident).ty
        IN /\ last.ty # stored =>
                 last.status = "IncompatibleTypes" /\ last.res = <<>>
           /\ last.ty = stored =>
                 /\ last.status = "Ok"
                 /\ last.res = [i \in 1..ViewNrows(perms, LastView) |->
                                   Rows(perms, LastView)[i][pos]]

\* A typed access with the wrong type to a field of a filtered view.
C22_Witness ==
    /\ last.op = "tmap" /\ last.status = "IncompatibleTypes"
    /\ last.field = "a" /\ last.ty = "Float"
    /\ ViewNrows(perms, LastView) \in 1..3

\* A typed access with the stored type to a renamed field of a view.
C22_OkWitness ==
    /\ last.op = "tmap" /\ last.status = "Ok"
    /\ last.field = "x" /\ Len(last.res) > 0

\* C23: is_empty() on a view returns true exactly when the view has no rows or
\* has no fields.
C23_IsEmpty ==
    last.op = "is_empty" =>
        (last.res = <<TRUE>>
            <=> (ViewNrows(perms, LastView) = 0 \/ nfields(LastView) = 0))

\* What is_empty returns as coded: whether the view has no rows.
C23_AsCoded ==
    last.op = "is_empty" => (last.res = <<TRUE>> <=> ViewNrows(perms, LastView) = 0)

\* is_empty on a view without fields that has rows, and on a view with fields
\* that has no rows.
C23_NoFields ==
    /\ last.op = "is_empty"
    /\ nfields(LastView) = 0 /\ ViewNrows(perms, LastView) > 0
C23_NoRows ==
    /\ last.op = "is_empty"
    /\ nfields(LastView) > 0 /\ ViewNrows(perms, LastView) = 0

\* ------------------------------------------------- frames and field maps
\* The frames of all views.
AllFrames == UNION {Range(views[v].frames) : v \in 1..Len(views)}

\* C24: every entry of the permutation of every frame is a row of the
\* frame's store, so a logical row below nrows() maps to a row of the store.
C24_PermutationInRange ==
    \A fr \in AllFrames :
        /\ perms[fr.perm].some =>
              \A i \in 1..Len(perms[fr.perm].v) :
                  perms[fr.perm].v[i] \in 0..(StoreNrows(stores[fr.store]) - 1)
        /\ \A requested \in 0..(FrameNrows(perms, fr) - 1) :
              map_index(perms, fr, requested) \in 0..(StoreNrows(stores[fr.store]) - 1)

\* A view of two frames that was filtered or sorted twice, so that the
\* permutation of its second frame was composed from a propagated list, and
\* that still shows the last row of the store.
C24_Witness ==
    /\ last.op \in {"filter", "sort_by"} /\ last.status = "Ok"
    /\ steps >= 2
    /\ Len(LastView.frames) = 2
    /\ \A k \in 1..2 : perms[LastView.frames[k].perm].some
    /\ \E i \in 1..Len(perms[LastView.frames[2].perm].v) :
          perms[LastView.frames[2].perm].v[i] = StoreNrows(stores[LastView.frames[2].store]) - 1

\* C25: in every view the field names are unique, every field's frame index
\* is below the number of frames, and the field's original identifier is a
\* field of the store of the frame it is routed to.
C25_FieldMapWellFormed ==
    \A v \in 1..Len(views) :
        LET fields == views[v].fields
        IN /\ \A k, l \in 1..Len(fields) : k # l => fields[k].key # fields[l].key
           /\ \A k \in 1..Len(fields) :
                 /\ fields[k].frame_idx \in 0..(Len(views[v].frames) - 1)
                 /\ StoreHasField(stores[FrameOf(views[v], fields[k]).store],
                                  fields[k].rident.ident)

\* A merged view of two frames with a renamed field routed to the second.
C25_Witness ==
    /\ LastOk("merge")
    /\ Len(LastMade.frames) = 2
    /\ \E k \in 1..nfields(LastMade) :
          /\ LastMade.fields[k].frame_idx = 1
          /\ LastMade.fields[k].key # LastMade.fields[k].rident.ident

\* C26: a successful filter or sort_by with the local list it returns
\* leaves every frame of the view with the permutation composed from its
\* previous one: the list itself when the frame had no permutation, and
\* otherwise previous[list[i]] at every position i; the row count becomes the
\* length of the list and the frame's store stays the one it was.
C26_Step ==
    (last'.op \in {"filter", "sort_by"} /\ last'.status = "Ok") =>
        LET local == last'.idx
        IN /\ views' = views
           /\ \A k \in 1..Len(views[last'.view].frames) :
                 LET fr == views[last'.view].frames[k]
                     old == perms[fr.perm]
                     new == perms'[fr.perm]
                 IN /\ new.some
                    /\ Len(new.v) = Len(local)
                    /\ FrameNrows(perms', fr) = Len(local)
                    /\ \A i \in 1..Len(local) :
                          IF old.some
                          THEN /\ local[i] + 1 \in DOMAIN old.v
                               /\ new.v[i] = old.v[local[i] + 1]
                          ELSE new.v[i] = local[i]

C26_PermutationComposes == [][C26_Step]_vars

\* A second filter of a view, whose list is composed with the permutation
\* the first left and differs from the permutation that results.
C26_Witness ==
    /\ last.op = "filter" /\ last.status = "Ok"
    /\ last.chain.on
    /\ last.idx # <<>>
    /\ perms[LastView.frames[1].perm].v # last.idx

\* C27: a successful rename(old, new) leaves the number of fields and of
\* rows, the position of the renamed field, the name and position of every
\* other field and every permutation as they were; field new then reads the
\* values field old read before, and rename(new, old) brings the original
\* field names back, in order and routed as before.
C27_Step ==
    (last'.op = "rename" /\ last'.status = "Ok") =>
        LET before == views[last'.view]
            after == views'[last'.view]
            pos == KeyIndex(before.fields, last'.field)
            back == ViewRename(after, last'.new, last'.field)
        IN /\ nfields(after) = nfields(before)
           /\ ViewNrows(perms', after) = ViewNrows(perms, before)
           /\ fieldnames(after) = [fieldnames(before) EXCEPT ![pos] = last'.new]
           /\ perms' = perms
           /\ after.frames = before.frames
           /\ FieldColumn(perms', after, after.fields[KeyIndex(after.fields, last'.new)])
                 = FieldColumn(perms, before, before.fields[pos])
           /\ back.status = "Ok"
           /\ fieldnames(back.view) = fieldnames(before)
           /\ \A k \in 1..nfields(before) :
                 /\ back.view.fields[k].frame_idx = before.fields[k].frame_idx
                 /\ back.view.fields[k].rident.ident = before.fields[k].rident.ident

C27_RenameOnlyName == [][C27_Step]_vars

\* A successful rename of a field that is not the last of its view, in a view
\* that shows rows.
C27_Witness ==
    /\ LastOk("rename")
    /\ LastPos(last.new) \in 1..(nfields(LastView) - 1)
    /\ ViewNrows(perms, LastView) > 0

\* The column of the store field a field of a view stands for, as the
\* field's frame shows it.
StoreColumn(pm, view, name) ==
    LET view_field == view.fields[KeyIndex(view.fields, name)]
        fr == FrameOf(view, view_field)
        col == StoreField(stores[fr.store], view_field.rident.ident).col
    IN [i \in 1..FrameNrows(pm, fr) |->
           IF pm[fr.perm].some THEN MaskedGet(col, pm[fr.perm].v[i])
           ELSE MaskedGet(col, i - 1)]

StoreColumnType(view, name) ==
    LET view_field == view.fields[KeyIndex(view.fields, name)]
    IN StoreField(stores[FrameOf(view, view_field).store], view_field.rident.ident).ty

\* C28: a filter or sort_by of a view on a name that is not a key of its
\* field map returns FieldNotFound(name) and changes no permutation, also
\* when the name is the store identifier of a renamed field or of a field the
\* view leaves out; on a name of the field map it works on the store column
\* of the field's original identifier.
C28_Step ==
    last'.op \in {"filter", "sort_by"} =>
        LET view == views[last'.view]
            name == last'.field
        IN /\ views' = views
           /\ ~has_field(view, name) =>
                 /\ last'.status = "FieldNotFound"
                 /\ last'.err = <<name>>
                 /\ perms' = perms
           /\ has_field(view, name) =>
                 /\ last'.status = "Ok"
                 /\ last'.op = "filter" =>
                       \A i \in 0..(ViewNrows(perms, view) - 1) :
                           i \in Range(last'.idx)
                               <=> Matches(last'.pred, At(StoreColumn(perms, view, name), i))
                 /\ last'.op = "sort_by" =>
                       last'.idx \in SortOrders(StoreColumnType(view, name),
                                                StoreColumn(perms, view, name))

C28_LookupByName == [][C28_Step]_vars

\* The store identifiers of the fields of a view.
StoreIdents(view) == {view.fields[k].rident.ident : k \in 1..nfields(view)}

\* A filter or sort_by on the store identifier of a field that the view
\* holds under another name.
C28_Witness ==
    /\ last.op \in {"filter", "sort_by"} /\ last.status = "FieldNotFound"
    /\ last.field \in StoreIdents(LastView)
    /\ ~has_field(LastView, last.field)

\* A filter on a field of the store that the subview leaves out.
C28_LeftOutWitness ==
    /\ last.op = "filter" /\ last.status = "FieldNotFound"
    /\ last.field \notin StoreIdents(LastView)
    /\ StoreHasField(stores[LastView.frames[1].store], last.field)

\* A filter and a sort on a renamed field that keep or move rows.
C28_RenamedWitness ==
    /\ last.op \in {"filter", "sort_by"} /\ last.status = "Ok"
    /\ last.field = "x"
    /\ last.idx # <<>>
    /\ last.idx # [i \in 1..Len(last.idx) |-> i - 1]

\* C29: a successful sort_by returns a list that holds every local index
\* 0..nrows-1 once; the view has as many rows after as before, and row i
\* after is the whole record that was row list[i] before, in every frame, so
\* the records shown are the same with the same multiplicities.
C29_Step ==
    (last'.op = "sort_by" /\ last'.status = "Ok") =>
        LET before == Rows(perms, views[last'.view])
            after == Rows(perms', views'[last'.view])
            nrows == ViewNrows(perms, views[last'.view])
            sorted == last'.idx
        IN /\ Len(sorted) = nrows
           /\ Range(sorted) = 0..(nrows - 1)
           /\ ViewNrows(perms', views'[last'.view]) = nrows
           /\ \A k \in 1..Len(views'[last'.view].frames) :
                 FrameNrows(perms', views'[last'.view].frames[k]) = nrows
           /\ Len(after) = Len(sorted)
           /\ \A i \in 1..Len(sorted) :
                 sorted[i] + 1 \in DOMAIN before /\ after[i] = before[sorted[i] + 1]
           /\ \A record \in Range(before) \cup Range(after) :
                 Cardinality({i \in DOMAIN after : after[i] = record})
                     = Cardinality({i \in DOMAIN before : before[i] = record})

C29_SortKeepsRows == [][C29_Step]_vars

\* A sort of a view of two frames on a key with a missing value that moves
\* rows.
C29_Witness ==
    /\ LastOk("sort_by")
    /\ Len(LastView.frames) = 2
    /\ last.idx # [i \in 1..Len(last.idx) |-> i - 1]
    /\ \E i \in 1..ViewNrows(perms, LastView) :
          is_na(FieldColumn(perms, LastView, LastView.fields[LastPos(last.field)])[i])

\* C30: no two frames of a view refer to the same store object.
C30_FramesOfDistinctStores ==
    \A v \in 1..Len(views) :
        \A k, l \in 1..Len(views[v].frames) :
            k # l => views[v].frames[k].store # views[v].frames[l].store

\* A merge of two views that hold frames of one store, with fields of both
\* in the result.
C30_Witness ==
    /\ LastOk("merge")
    /\ Range(FrameStores(LastView)) \cap Range(FrameStores(LastOther)) # {}
    /\ nfields(LastView) > 0 /\ nfields(LastOther) > 0
    /\ nfields(LastMade) = nfields(LastView) + nfields(LastOther)

====
